---- MODULE Spec2Model ----
(***************************************************************************)
(* Model of torchelastic/multiprocessing/spawn.py: a launcher that starts  *)
(* nprocs worker processes running _wrap(fn, i, args, error_queue), and    *)
(* ProcessContext.join, which waits for any worker, scans the ready ones,   *)
(* tears the group down on the first non-zero exit and raises a typed       *)
(* exception.  The parent thread and every worker are separate processes;   *)
(* each has a program position and their steps interleave.                  *)
(***************************************************************************)
EXTENDS Integers, Sequences, FiniteSets, TLC

(* ---------------------------- bounds ---------------------------------- *)

\* largest group size explored (nprocs ranges over 0..MaxProcs)
MaxProcs == 2

\* number of signals other processes deliver to the workers of one group
MaxSignals == 1

(* ------------------------- input domains ------------------------------ *)

\* signal numbers of the platform (signal.SIGINT, signal.SIGTERM)
SIGINT == 2
SIGTERM == 15
\* a real-time signal between SIGRTMIN and SIGRTMAX: it kills a process by
\* default but has no member in the signal.Signals enumeration
SIGRT == 35

\* signals another process may deliver to a worker while it runs fn
ExtSignals == {SIGINT, SIGTERM, SIGRT}

\* texts of the exceptions a user function raises
Msgs == {"boom"}

\* statuses a user function passes to sys.exit / os._exit
ExitCodes == {7}

\* what the user function fn(i, *args) does when left alone
FnKinds ==
    {[kind |-> "return"], [kind |-> "hang"]}
    \cup {[kind |-> "raise", msg |-> m] : m \in Msgs}
    \cup {[kind |-> "exit", code |-> c] : c \in ExitCodes}

\* process id the OS gives the worker started i-th: distinct per worker
\* and different from its index
PidOf(i) == 100 + i

\* what error_reporter.get_error(pid) may return: nothing or a text
ExtTexts == {<<>>, <<"reported">>}

\* timeouts a caller passes to join: None (block) or a number
Timeouts == {"none", "finite"}

None == -1

(* ----------------------------- state ---------------------------------- *)

VARIABLES
    nprocs,       \* start_processes argument
    joinFlag,     \* start_processes argument join
    fn,           \* behaviour of the user function for each index
    lpc,          \* position of start_processes / its caller
    spawned,      \* loop variable i of start_processes: workers started so far
    configured,   \* number of error_reporter.configure calls
    wrap_args,    \* per process: the i and the error_queue passed to _wrap
    queue_list,   \* the list error_queues of start_processes, later
                  \* self.error_queues: the queues in the order of creation
    ncalls,       \* join calls made by the loop of start_processes (it stops
                  \* counting one past nprocs)
    wst,          \* per worker: "none" | "running" | "caught" | "posted" | "exited"
    threw,        \* per worker: fn raised an Exception
    exitcode,     \* per worker: process.exitcode once exited
    pid,          \* per worker: process.pid
    sigrecv,      \* per worker: external signal delivered while fn ran (None if none)
    nsignals,     \* number of external signals delivered so far
    termSent,     \* per worker: process.terminate() was called
    error_queues, \* per SimpleQueue, in the order of creation: its contents
    sentinels,    \* ProcessContext.sentinels, as the set of indices it maps to
    jpc,          \* position inside ProcessContext.join ("idle" when not in join)
    timeout,      \* timeout argument of the running join call
    ready,        \* list returned by multiprocessing.connection.wait
    error_index,  \* local of join (kept until the next call)
    cidx,         \* position of the cascade loop over self.processes
    result,       \* outcome of the last finished join call (kind), for a
                  \* returned value with the line of the return statement (at)
    aliveAtDesig, \* workers alive when the running join set error_index
    raisedLog,    \* exceptions join has raised so far, with the index they designate
    reads,        \* per SimpleQueue: number of get() calls by the parent
    reportCalls   \* calls of error_reporter.get_error, in order: the pid
                  \* passed and the text returned

vars == <<nprocs, joinFlag, fn, lpc, spawned, configured, wst, exitcode, pid,
          sigrecv, termSent, error_queues, sentinels, jpc, timeout, ready,
          error_index, cidx, result, aliveAtDesig, raisedLog, reads,
          reportCalls, nsignals, wrap_args, queue_list, ncalls, threw>>

wvars == <<wst, exitcode, sigrecv, nsignals, error_queues, threw>>
jvars == <<sentinels, jpc, timeout, ready, error_index, cidx, result,
           aliveAtDesig, raisedLog, reads, reportCalls, termSent, ncalls>>
lvars == <<lpc, spawned, configured, pid, wrap_args, queue_list>>
ivars == <<nprocs, joinFlag, fn>>

Idx == 0..(MaxProcs - 1)
Workers == 0..(nprocs - 1)

Alive(i) == wst[i] \in {"running", "caught", "posted"}
Exited(i) == wst[i] = "exited"

Init ==
    /\ nprocs \in 0..MaxProcs
    /\ joinFlag \in BOOLEAN
    /\ fn \in [Idx -> FnKinds]
    /\ \A i \in Idx : i >= nprocs => fn[i] = [kind |-> "return"]
    /\ lpc = "start"
    /\ spawned = 0
    /\ configured = 0
    /\ wrap_args = [i \in Idx |-> [i |-> None, error_queue |-> None]]
    /\ queue_list = <<>>
    /\ ncalls = 0
    /\ wst = [i \in Idx |-> "none"]
    /\ threw = [i \in Idx |-> FALSE]
    /\ exitcode = [i \in Idx |-> None]
    /\ pid = [i \in Idx |-> None]
    /\ sigrecv = [i \in Idx |-> None]
    /\ nsignals = 0
    /\ termSent = [i \in Idx |-> FALSE]
    /\ error_queues = [i \in Idx |-> <<>>]
    /\ sentinels = {}
    /\ jpc = "idle"
    /\ timeout = "none"
    /\ ready = <<>>
    /\ error_index = None
    /\ cidx = 0
    /\ result = [kind |-> "none"]
    /\ aliveAtDesig = {}
    /\ raisedLog = <<>>
    /\ reads = [i \in Idx |-> 0]
    /\ reportCalls = <<>>

(* ------------------------ start_processes ----------------------------- *)

\* error_reporter.configure(timestamp_str_ms), before the spawn loop
Configure ==
    /\ lpc = "start"
    /\ configured' = configured + 1
    /\ lpc' = "spawn"
    /\ UNCHANGED <<spawned, pid, wrap_args, queue_list>>
    /\ UNCHANGED <<ivars, wvars, jvars>>

\* the first queue made handed to every later worker as well
NewQueue_Reused == IF queue_list = <<>> THEN Len(queue_list) ELSE Head(queue_list)

\* mp.SimpleQueue(): a queue that did not exist before; every queue made
\* so far is in the list, so the new one is numbered by the list's length
NewQueue == Len(queue_list)

\* one iteration of "for i in range(nprocs)": a fresh SimpleQueue, a
\* process bound to _wrap(fn, i, args, error_queue), process.start(), which
\* gives the process its pid, and the two appends
SpawnOne ==
    /\ lpc = "spawn"
    /\ spawned < nprocs
    /\ LET error_queue == NewQueue
       IN /\ wrap_args' = [wrap_args EXCEPT ![spawned] =
                              [i |-> spawned, error_queue |-> error_queue]]
          /\ error_queues' = [error_queues EXCEPT ![error_queue] = <<>>]
          /\ queue_list' = Append(queue_list, error_queue)
    /\ pid' = [pid EXCEPT ![spawned] = PidOf(spawned)]
    /\ wst' = [wst EXCEPT ![spawned] = "running"]
    /\ spawned' = spawned + 1
    /\ UNCHANGED <<lpc, configured, exitcode, sigrecv, nsignals, threw>>
    /\ UNCHANGED <<ivars, jvars>>

\* ProcessContext.__init__: sentinels maps every process's sentinel to its index
ContextInit ==
    /\ lpc = "spawn"
    /\ spawned = nprocs
    /\ sentinels' = {i \in Idx : i < nprocs}
    /\ lpc' = IF joinFlag THEN "loop" ELSE "returned"
    /\ UNCHANGED <<spawned, configured, pid, wrap_args, queue_list, jpc,
                   timeout, ready, error_index, cidx, result, aliveAtDesig,
                   raisedLog, reads, reportCalls, termSent, ncalls>>
    /\ UNCHANGED <<ivars, wvars>>

(* ------------------------------ _wrap --------------------------------- *)

\* traceback.format_exc() of an exception whose text is m
format_exc(m) == <<"Traceback (most recent call last):", m>>

\* what fn does in the process at position i: fn is called with the i
\* that _wrap was given
FnOf(i) == fn[wrap_args[i].i]

\* fn(i, *args) completes without raising: _wrap returns, the process exits 0
FnReturn(i) ==
    /\ wst[i] = "running"
    /\ FnOf(i).kind = "return"
    /\ wst' = [wst EXCEPT ![i] = "exited"]
    /\ exitcode' = [exitcode EXCEPT ![i] = 0]
    /\ UNCHANGED <<sigrecv, nsignals, error_queues, threw>>
    /\ UNCHANGED <<ivars, lvars, jvars>>

\* fn(i, *args) raises an Exception: control enters "except Exception"
FnRaise(i) ==
    /\ wst[i] = "running"
    /\ FnOf(i).kind = "raise"
    /\ wst' = [wst EXCEPT ![i] = "caught"]
    /\ threw' = [threw EXCEPT ![i] = TRUE]
    /\ UNCHANGED <<exitcode, sigrecv, nsignals, error_queues>>
    /\ UNCHANGED <<ivars, lvars, jvars>>

\* the trace put on the queue twice
PutTrace_Twice(i) ==
    /\ wst[i] = "caught"
    /\ error_queues' = [error_queues EXCEPT ![wrap_args[i].error_queue] =
                            @ \o <<format_exc(FnOf(i).msg), format_exc(FnOf(i).msg)>>]
    /\ wst' = [wst EXCEPT ![i] = "posted"]
    /\ UNCHANGED <<exitcode, sigrecv, nsignals, threw>>
    /\ UNCHANGED <<ivars, lvars, jvars>>

\* error_queue.put(traceback.format_exc()), on the queue _wrap was given
PutTrace(i) ==
    /\ wst[i] = "caught"
    /\ error_queues' = [error_queues EXCEPT ![wrap_args[i].error_queue] =
                            Append(@, format_exc(FnOf(i).msg))]
    /\ wst' = [wst EXCEPT ![i] = "posted"]
    /\ UNCHANGED <<exitcode, sigrecv, nsignals, threw>>
    /\ UNCHANGED <<ivars, lvars, jvars>>

\* sys.exit(1) at the end of "except Exception"
SysExit1(i) ==
    /\ wst[i] = "posted"
    /\ wst' = [wst EXCEPT ![i] = "exited"]
    /\ exitcode' = [exitcode EXCEPT ![i] = 1]
    /\ UNCHANGED <<sigrecv, nsignals, error_queues, threw>>
    /\ UNCHANGED <<ivars, lvars, jvars>>

\* fn(i, *args) leaves the process with a status (sys.exit(c) raises
\* SystemExit, which "except Exception" does not catch; os._exit(c))
FnExit(i) ==
    /\ wst[i] = "running"
    /\ FnOf(i).kind = "exit"
    /\ wst' = [wst EXCEPT ![i] = "exited"]
    /\ exitcode' = [exitcode EXCEPT ![i] = FnOf(i).code]
    /\ UNCHANGED <<sigrecv, nsignals, error_queues, threw>>
    /\ UNCHANGED <<ivars, lvars, jvars>>

\* every signal, SIGINT too, kills the worker
StatusAfterSignal_Killed(s) == 0 - s

\* exit status of a worker that gets signal s while it runs fn: SIGINT
\* surfaces in fn as KeyboardInterrupt, which _wrap catches and passes, so
\* _wrap returns and the process exits 0; any other signal kills the process
\* and multiprocessing reports the negated signal number
StatusAfterSignal(s) == IF s = SIGINT THEN 0 ELSE 0 - s

\* another process delivers signal s to worker i while it runs fn
\* (a hanging fn is one that ignores SIGTERM)
DeliverSignal(i, s) ==
    /\ wst[i] = "running"
    /\ nsignals < MaxSignals
    /\ nsignals' = nsignals + 1
    /\ ~(s = SIGTERM /\ FnOf(i).kind = "hang")
    /\ sigrecv' = [sigrecv EXCEPT ![i] = s]
    /\ wst' = [wst EXCEPT ![i] = "exited"]
    /\ exitcode' = [exitcode EXCEPT ![i] = StatusAfterSignal(s)]
    /\ UNCHANGED <<error_queues, threw>>
    /\ UNCHANGED <<ivars, lvars, jvars>>

\* the SIGTERM of process.terminate() takes effect on a worker that is still
\* alive, wherever it is in _wrap; a hanging fn ignores it
TermDelivered(i) ==
    /\ termSent[i]
    /\ Alive(i)
    /\ FnOf(i).kind # "hang"
    /\ wst' = [wst EXCEPT ![i] = "exited"]
    /\ exitcode' = [exitcode EXCEPT ![i] = 0 - SIGTERM]
    /\ UNCHANGED <<sigrecv, nsignals, error_queues, threw>>
    /\ UNCHANGED <<ivars, lvars, jvars>>

(* ------------------------- error taxonomy ----------------------------- *)

\* members of the signal.Signals enumeration among the signals of the model
\* (signal.Signals(n) raises ValueError for a number that is no member)
SignalNames == (SIGINT :> "SIGINT") @@ (SIGTERM :> "SIGTERM")

\* the message without the trace read from the queue
ProcessMsg_NoTrace(index, trace) ==
    <<"-- Process ", ToString(index), " terminated with the following error:">>

\* "\n\n-- Process %d terminated with the following error:\n" % error_index
\* followed by the trace read from the queue
ProcessMsg(index, trace) ==
    <<"-- Process ", ToString(index), " terminated with the following error:">>
        \o trace

\* the exception built without the report text
WorkerRaisedException_NoReport(index, p, msg, report) ==
    [kind |-> "WorkerRaisedException", error_index |-> index, error_pid |-> p,
     msg |-> msg]

\* WorkerRaisedException.__init__: the report text is joined on when truthy
WorkerRaisedException(index, p, msg, report) ==
    [kind |-> "WorkerRaisedException", error_index |-> index, error_pid |-> p,
     msg |-> IF report # <<>> THEN msg \o <<"**Captured errors**">> \o report
                              ELSE msg]

WorkerSignaledException(index, p, name, trace) ==
    [kind |-> "WorkerSignaledException", error_index |-> index,
     error_pid |-> p, signal_name |-> name, msg |-> trace]

WorkerExitedException(index, p, code, trace) ==
    [kind |-> "WorkerExitedException", error_index |-> index,
     error_pid |-> p, exit_code |-> code, msg |-> trace]

SubprocessKinds ==
    {"WorkerRaisedException", "WorkerSignaledException", "WorkerExitedException"}

(* ----------------------- ProcessContext.join -------------------------- *)

\* the loop of start_processes taking an exception of join for success
AfterJoin_Swallow(kind) ==
    IF joinFlag
    THEN IF kind = "false" THEN "loop" ELSE "done"
    ELSE "returned"

\* where the caller of join continues once the call is over: the loop of
\* start_processes ends on True, repeats on False and lets an exception
\* pass; a caller holding the context may call join again
AfterJoin(kind) ==
    IF joinFlag
    THEN CASE kind = "true" -> "done"
           [] kind = "false" -> "loop"
           [] OTHER -> "raised"
    ELSE "returned"

\* the test at the head of join left out
NothingToJoin_Never == FALSE

\* line 140, "len(self.sentinels) == 0"
NothingToJoin == Cardinality(sentinels) = 0

\* join reports success whatever remains
AllJoined_Always(sents) == TRUE

\* line 158, "len(self.sentinels) == 0" once the ready workers are popped
AllJoined(sents) == Cardinality(sents) = 0

\* join(timeout) is called; "if len(self.sentinels) == 0: return True"
JoinCall(t) ==
    /\ lpc \in {"loop", "returned"}
    /\ jpc = "idle"
    /\ lpc = "loop" => t = "none"
    /\ timeout' = IF NothingToJoin THEN "none" ELSE t
    /\ error_index' = None
    /\ ncalls' = IF lpc = "loop" /\ ncalls <= nprocs THEN ncalls + 1 ELSE ncalls
    /\ IF NothingToJoin
       THEN /\ result' = [kind |-> "true", at |-> 141]
            /\ lpc' = AfterJoin("true")
            /\ jpc' = "idle"
       ELSE /\ result' = [kind |-> "none"]
            /\ lpc' = "injoin"
            /\ jpc' = "wait"
    /\ UNCHANGED <<sentinels, ready, cidx, aliveAtDesig, raisedLog,
                   reads, reportCalls, termSent>>
    /\ UNCHANGED <<spawned, configured, pid, wrap_args, queue_list>>
    /\ UNCHANGED <<ivars, wvars>>

\* all orders in which a set of indices can be listed
RECURSIVE Orders(_)
Orders(S) ==
    IF S = {} THEN {<<>>}
    ELSE UNION {{<<x>> \o o : o \in Orders(S \ {x})} : x \in S}

\* wait returning every sentinel, signaled or not
ReadySet_All == sentinels

\* sentinels of the remaining set that are signaled
ReadySet == {i \in sentinels : Exited(i)}

\* multiprocessing.connection.wait returns the ready sentinels, in an order
\* of its own, as soon as there is one
WaitReady ==
    /\ jpc = "wait"
    /\ ReadySet # {}
    /\ ready' \in Orders(ReadySet)
    /\ jpc' = "scan"
    /\ UNCHANGED <<sentinels, timeout, error_index, cidx, result,
                   aliveAtDesig, raisedLog, reads, reportCalls, termSent, ncalls>>
    /\ UNCHANGED <<ivars, wvars, lvars>>

\* ... or an empty list when the timeout elapses with no sentinel signaled
WaitTimeout ==
    /\ jpc = "wait"
    /\ timeout # "none"
    /\ ReadySet = {}
    /\ ready' = <<>>
    /\ jpc' = "scan"
    /\ UNCHANGED <<sentinels, timeout, error_index, cidx, result,
                   aliveAtDesig, raisedLog, reads, reportCalls, termSent, ncalls>>
    /\ UNCHANGED <<ivars, wvars, lvars>>

\* the scan without "self.sentinels.pop(sentinel)"
RECURSIVE ScanReady_NoPop(_, _)
ScanReady_NoPop(rdy, sents) ==
    IF rdy = <<>> THEN [sentinels |-> sents, error_index |-> None]
    ELSE IF exitcode[Head(rdy)] # 0
         THEN [sentinels |-> sents, error_index |-> Head(rdy)]
         ELSE ScanReady_NoPop(Tail(rdy), sents)

\* the scan without the break: every ready worker is popped and the last
\* non-zero exit is the one kept
RECURSIVE ScanReady_NoBreak(_, _)
ScanReady_NoBreak(rdy, sents) ==
    IF rdy = <<>> THEN [sentinels |-> sents, error_index |-> None]
    ELSE LET rest == ScanReady_NoBreak(Tail(rdy), sents \ {Head(rdy)})
         IN IF exitcode[Head(rdy)] # 0 /\ rest.error_index = None
            THEN [sentinels |-> rest.sentinels, error_index |-> Head(rdy)]
            ELSE rest

\* "for sentinel in ready": pop the index, read process.exitcode, break on
\* the first that is not 0.  Yields the remaining set and error_index.
RECURSIVE ScanReady(_, _)
ScanReady(rdy, sents) ==
    IF rdy = <<>> THEN [sentinels |-> sents, error_index |-> None]
    ELSE LET index == Head(rdy)
             popped == sents \ {index}
         IN IF exitcode[index] # 0
            THEN [sentinels |-> popped, error_index |-> index]
            ELSE ScanReady(Tail(rdy), popped)

\* the scan loop and, when it found no error, the return of
\* "len(self.sentinels) == 0"
Scan ==
    /\ jpc = "scan"
    /\ LET r == ScanReady(ready, sentinels)
       IN /\ sentinels' = r.sentinels
          /\ error_index' = r.error_index
          /\ IF r.error_index = None
             THEN /\ result' = [kind |-> IF AllJoined(r.sentinels)
                                         THEN "true" ELSE "false",
                                at |-> 158]
                  /\ jpc' = "idle"
                  /\ lpc' = AfterJoin(result'.kind)
                  /\ timeout' = "none"
                  /\ ready' = <<>>
                  /\ UNCHANGED <<cidx, aliveAtDesig>>
             ELSE /\ jpc' = "is_alive"
                  /\ cidx' = 0
                  /\ aliveAtDesig' = {i \in Workers : Alive(i)}
                  /\ UNCHANGED <<result, lpc, timeout, ready>>
    /\ UNCHANGED <<raisedLog, reads, reportCalls, termSent, ncalls>>
    /\ UNCHANGED <<spawned, configured, pid, wrap_args, queue_list>>
    /\ UNCHANGED <<ivars, wvars>>

\* the cascade with the terminate() call left out
CascadeIsAlive_NoTerminate ==
    /\ jpc = "is_alive"
    /\ jpc' = "process_join"
    /\ UNCHANGED <<sentinels, timeout, ready, error_index, cidx, result,
                   aliveAtDesig, raisedLog, reads, reportCalls, termSent, ncalls>>
    /\ UNCHANGED <<ivars, wvars, lvars>>

\* cascade, "if process.is_alive():" for self.processes[cidx]
CascadeIsAlive ==
    /\ jpc = "is_alive"
    /\ jpc' = IF Alive(cidx) THEN "terminate" ELSE "process_join"
    /\ UNCHANGED <<sentinels, timeout, ready, error_index, cidx, result,
                   aliveAtDesig, raisedLog, reads, reportCalls, termSent, ncalls>>
    /\ UNCHANGED <<ivars, wvars, lvars>>

\* cascade, "process.terminate()": SIGTERM is sent to the process
CascadeTerminate ==
    /\ jpc = "terminate"
    /\ termSent' = [termSent EXCEPT ![cidx] = TRUE]
    /\ jpc' = "process_join"
    /\ UNCHANGED <<sentinels, timeout, ready, error_index, cidx, result,
                   aliveAtDesig, raisedLog, reads, reportCalls, ncalls>>
    /\ UNCHANGED <<ivars, wvars, lvars>>

\* cascade, "process.join()": blocks, without a timeout, until the process
\* has exited; then the loop goes on to the next process or ends
CascadeJoin ==
    /\ jpc = "process_join"
    /\ Exited(cidx)
    /\ IF cidx + 1 < nprocs
       THEN /\ cidx' = cidx + 1
            /\ jpc' = "is_alive"
       ELSE /\ cidx' = cidx
            /\ jpc' = "report"
    /\ UNCHANGED <<sentinels, timeout, ready, error_index, result,
                   aliveAtDesig, raisedLog, reads, reportCalls, termSent, ncalls>>
    /\ UNCHANGED <<ivars, wvars, lvars>>

\* self.error_queues[index]
QueueOf(index) == queue_list[index + 1]

\* the records carrying the pid of the first process of the group
Classify_FirstPid(index, report) ==
    LET error_pid == pid[0]
        code == exitcode[index]
    IN IF error_queues[QueueOf(index)] = <<>>
       THEN IF code < 0
            THEN IF (0 - code) \in DOMAIN SignalNames
                 THEN WorkerSignaledException(index, error_pid,
                                              SignalNames[0 - code], report)
                 ELSE [kind |-> "ValueError"]
            ELSE WorkerExitedException(index, error_pid, code, report)
       ELSE WorkerRaisedException(index, error_pid,
                ProcessMsg(index, Head(error_queues[QueueOf(index)])), report)

\* what join raises for the designated failure, given the report text
Classify(index, report) ==
    LET error_pid == pid[index]
        code == exitcode[index]
    IN IF error_queues[QueueOf(index)] = <<>>
       THEN IF code < 0
            THEN IF (0 - code) \in DOMAIN SignalNames
                 THEN WorkerSignaledException(index, error_pid,
                                              SignalNames[0 - code], report)
                 ELSE [kind |-> "ValueError"]
            ELSE WorkerExitedException(index, error_pid, code, report)
       ELSE WorkerRaisedException(index, error_pid,
                ProcessMsg(index, Head(error_queues[QueueOf(index)])), report)

\* lines 166-186: error_reporter.get_error(error_pid), the test of the
\* queue, the get() from it when it holds a trace, and the raise
RaiseFailure ==
    /\ jpc = "report"
    /\ \E report \in ExtTexts :
          /\ result' = Classify(error_index, report)
          /\ reportCalls' = Append(reportCalls,
                                   [pid |-> pid[error_index], text |-> report])
    /\ IF error_queues[QueueOf(error_index)] # <<>>
       THEN /\ error_queues' = [error_queues EXCEPT ![QueueOf(error_index)] = Tail(@)]
            /\ reads' = [reads EXCEPT ![QueueOf(error_index)] = @ + 1]
       ELSE UNCHANGED <<error_queues, reads>>
    /\ raisedLog' = Append(raisedLog, [index |-> error_index, exc |-> result'])
    /\ jpc' = "idle"
    /\ lpc' = AfterJoin(result'.kind)
    /\ cidx' = 0
    /\ timeout' = "none"
    /\ aliveAtDesig' = {}
    /\ ready' = <<>>
    /\ UNCHANGED <<sentinels, error_index, termSent, ncalls>>
    /\ UNCHANGED <<spawned, configured, pid, wrap_args, queue_list>>
    /\ UNCHANGED <<wst, exitcode, sigrecv, nsignals, threw>>
    /\ UNCHANGED ivars

(* --------------------------- specification ---------------------------- *)

WorkerStep ==
    \E i \in Idx :
        \/ FnReturn(i)
        \/ FnRaise(i)
        \/ PutTrace(i)
        \/ SysExit1(i)
        \/ FnExit(i)
        \/ TermDelivered(i)

SignalStep == \E i \in Idx : \E s \in ExtSignals : DeliverSignal(i, s)

ParentStep ==
    \/ Configure
    \/ SpawnOne
    \/ ContextInit
    \/ \E t \in Timeouts : JoinCall(t)
    \/ WaitReady
    \/ WaitTimeout
    \/ Scan
    \/ CascadeIsAlive
    \/ CascadeTerminate
    \/ CascadeJoin
    \/ RaiseFailure

Next == WorkerStep \/ SignalStep \/ ParentStep

Spec == Init /\ [][Next]_vars

\* the OS schedules every process: a worker that can take a step takes one,
\* and so does the parent thread; nobody has to send signals
FairSpec == Spec /\ WF_vars(WorkerStep) /\ WF_vars(ParentStep)

(* ------------------------------ claims -------------------------------- *)

IsRaised(r) == r.kind \notin {"none", "true", "false"}
IsRecord(r) == r.kind \in SubprocessKinds

\* the text m occurs in the message msg
Contains(msg, m) == \E j \in 1..Len(msg) : msg[j] = m

\* join has gone through its cascade and is about to raise a failure record
AboutToRaiseRecord ==
    /\ jpc = "report"
    /\ IsRecord(Classify(error_index, <<>>))

\* C1 as stated: when join raises a failure record, every worker that was
\* alive when the failure was designated has been sent a termination
\* request, and no worker of the group is alive.
C1_AliveAtDesignationTerminated ==
    AboutToRaiseRecord =>
        /\ \A i \in aliveAtDesig : termSent[i]
        /\ \A i \in Workers : ~Alive(i)

\* C1 amended: the cascade never waits for a live worker it has not sent a
\* termination request to, and when join raises a failure record no worker
\* of the group is alive; a worker that was alive at the designation and got
\* no request has exited by itself, with a status that is not SIGTERM's.
C1_CascadeTerminatesLiveWorkers ==
    /\ (jpc = "process_join" /\ Alive(cidx)) => termSent[cidx]
    /\ AboutToRaiseRecord =>
          \A i \in Workers :
             /\ ~Alive(i)
             /\ (i \in aliveAtDesig /\ ~termSent[i]) =>
                    (exitcode[i] # 0 - SIGTERM \/ sigrecv[i] = SIGTERM)

\* C1 witness: a failure record has been raised after a sibling that was
\* still alive was terminated by the cascade
C1_Witness ==
    /\ jpc = "idle"
    /\ IsRecord(result)
    /\ \E i \in Workers :
          /\ i # error_index
          /\ termSent[i]
          /\ sigrecv[i] = None
          /\ exitcode[i] = 0 - SIGTERM

\* the first exception join raised designates k and is the current result
FirstRaiseDesignates(k) ==
    /\ jpc = "idle"
    /\ Len(raisedLog) = 1
    /\ IsRaised(result)
    /\ error_index = k

\* C2: if fn of worker k raises an exception with text M and k is the first
\* non-zero exit join observes, join raises WorkerRaisedException with
\* error_index k, the pid of worker k and a message that contains M.
C2_RaisedRecordNamesWorkerAndText ==
    \A k \in Workers :
        (FirstRaiseDesignates(k) /\ fn[k].kind = "raise" /\ sigrecv[k] = None) =>
            /\ result.kind = "WorkerRaisedException"
            /\ result.error_index = k
            /\ result.error_pid = pid[k]
            /\ Contains(result.msg, fn[k].msg)

\* C2 witness: worker 1 of a group raised and join reported it
C2_Witness ==
    /\ FirstRaiseDesignates(1)
    /\ fn[1].kind = "raise"
    /\ sigrecv[1] = None
    /\ result.kind = "WorkerRaisedException"

\* the step of join that raises, after the cascade
RaiseStep == jpc = "report" /\ jpc' = "idle"

\* C3: the designated failure is classified by the channel first and the
\* exit status second, and one of the three record variants always applies:
\* a message in the channel gives WorkerRaisedException; an empty channel
\* and a negative status give WorkerSignaledException; an empty channel and
\* a positive status c give WorkerExitedException with exit_code c.
C3_ClassificationStep ==
    RaiseStep =>
        LET k == error_index IN
        /\ IsRecord(result')
        /\ error_queues[QueueOf(k)] # <<>> => result'.kind = "WorkerRaisedException"
        /\ (error_queues[QueueOf(k)] = <<>> /\ exitcode[k] < 0) =>
               result'.kind = "WorkerSignaledException"
        /\ (error_queues[QueueOf(k)] = <<>> /\ exitcode[k] > 0) =>
               /\ result'.kind = "WorkerExitedException"
               /\ result'.exit_code = exitcode[k]

\* C3: every step in which join raises classifies the designated failure
\* by the channel first and the exit status second, into one of the three
\* record variants.
C3_Classification == [][C3_ClassificationStep]_vars

\* worker k got a signal while it ran fn, join has accounted for k, and
\* join has raised nothing for another worker
SignaledAndObserved(k) ==
    /\ lpc \notin {"start", "spawn"}
    /\ jpc = "idle"
    /\ sigrecv[k] # None
    /\ k \notin sentinels
    /\ \A j \in 1..Len(raisedLog) : raisedLog[j].index = k

\* join raised WorkerSignaledException for k under the name given
RaisedSignaled(k, name) ==
    \E j \in 1..Len(raisedLog) :
        /\ raisedLog[j].index = k
        /\ raisedLog[j].exc.kind = "WorkerSignaledException"
        /\ raisedLog[j].exc.error_index = k
        /\ raisedLog[j].exc.signal_name = name

\* the platform's name of a signal number
PlatformName(s) ==
    CASE s = SIGINT -> "SIGINT"
      [] s = SIGTERM -> "SIGTERM"
      [] OTHER -> "SIGRTMIN+1"

\* C4 as stated: a worker k that a signal hits while it runs fn, SIGINT
\* included, makes join raise WorkerSignaledException for k naming the signal.
C4_AnySignalGivesSignaledRecord ==
    \A k \in Workers :
        SignaledAndObserved(k) => RaisedSignaled(k, PlatformName(sigrecv[k]))

\* C4 amended: a signal other than SIGINT that hits worker k while it runs fn
\* makes join raise WorkerSignaledException for k naming the signal when
\* signal.Signals has a member for it, and ValueError when it has none;
\* SIGINT reaches fn as KeyboardInterrupt, which _wrap swallows, so the
\* worker exits 0 and join raises nothing for it.
C4_SignalOutcome ==
    \A k \in Workers :
        SignaledAndObserved(k) =>
            CASE sigrecv[k] = SIGINT ->
                    exitcode[k] = 0 /\ raisedLog = <<>>
              [] sigrecv[k] = SIGTERM ->
                    /\ Len(raisedLog) = 1
                    /\ RaisedSignaled(k, "SIGTERM")
                    /\ raisedLog[1].exc.error_pid = pid[k]
              [] OTHER ->
                    /\ Len(raisedLog) = 1
                    /\ raisedLog[1].exc.kind = "ValueError"

\* C4 witness: a worker killed by SIGTERM from outside was reported by name
C4_Witness ==
    \E k \in Workers :
        /\ SignaledAndObserved(k)
        /\ sigrecv[k] = SIGTERM
        /\ RaisedSignaled(k, "SIGTERM")

\* every worker of a non-empty group has exited with status 0
AllExitedZero ==
    /\ nprocs >= 1
    /\ \A i \in Workers : Exited(i) /\ exitcode[i] = 0

\* join has returned True to its caller; start_processes(join=True) has
\* returned normally
JoinSucceeded ==
    IF joinFlag THEN lpc = "done"
    ELSE lpc = "returned" /\ result.kind = "true"

SomeNonZeroExit == \E i \in Workers : Exited(i) /\ exitcode[i] # 0

\* C5: for nprocs >= 1, once every worker has exited with status 0 the
\* repeated join calls eventually return True and start_processes with
\* join=True returns; a group whose functions all return gets there unless
\* a worker is killed first.
C5_AllSucceedEventuallyJoined ==
    /\ AllExitedZero ~> JoinSucceeded
    /\ (nprocs >= 1 /\ \A i \in Workers : fn[i].kind = "return")
          => <>(JoinSucceeded \/ SomeNonZeroExit)

\* C5 witness: a group of at least two workers, all exited 0, joined
C5_Witness ==
    /\ nprocs >= 2
    /\ AllExitedZero
    /\ JoinSucceeded
    /\ sentinels = {}

\* join is about to be called on a context whose remaining set is empty
FullyJoined ==
    /\ lpc \in {"loop", "returned"}
    /\ jpc = "idle"
    /\ sentinels = {}

C6_IdempotentStep ==
    FullyJoined =>
        /\ result' = [kind |-> "true", at |-> 141]
        /\ jpc' = "idle"
        /\ lpc' \in {"done", "returned"}
        /\ UNCHANGED <<sentinels, termSent, error_queues, reads, reportCalls,
                       raisedLog, wst, exitcode, pid>>

\* C6: once the remaining set is empty every join call, with any timeout,
\* returns True at once: it does not wait, terminates nobody, reads no
\* queue and leaves the context as it was.
C6_JoinIdempotent == [][C6_IdempotentStep]_vars

\* C6 witness: a group of workers was joined and a later call returned True
\* from the test at the head of join
C6_Witness ==
    /\ nprocs >= 1
    /\ lpc = "returned"
    /\ raisedLog = <<>>
    /\ sentinels = {}
    /\ result = [kind |-> "true", at |-> 141]

\* C7: join returns True only if every worker of the group exited with
\* status 0, also after an earlier join raised a failure record.
C7_TrueOnlyIfAllExitedZero ==
    result.kind = "true" => \A i \in Workers : exitcode[i] = 0

\* C8: a launch with nprocs = 0 is rejected: it never hands back a context
\* and never returns normally.
C8_ZeroProcsRejected ==
    nprocs = 0 => lpc \notin {"returned", "done"}

\* the steps of a join call whose wait times out
JoinEnters == jpc = "idle" /\ jpc' = "wait"
WaitTimesOut == jpc = "wait" /\ jpc' = "scan" /\ ready' = <<>>
ReturnsAfterTimeout == jpc = "scan" /\ ready = <<>> /\ jpc' # "scan"

C9_TimeoutStep ==
    /\ (JoinEnters \/ WaitTimesOut \/ ReturnsAfterTimeout) =>
          UNCHANGED <<sentinels, termSent, reads, reportCalls, raisedLog>>
    /\ ReturnsAfterTimeout =>
          /\ result' = [kind |-> "false", at |-> 158]
          /\ jpc' = "idle"

\* C9: a join call whose timeout elapses with no outstanding worker
\* terminated returns False and leaves the remaining set as it was, sends
\* no termination request and reads no failure channel.
C9_TimeoutLeavesContext == [][C9_TimeoutStep]_vars

\* C9 witness: join returned False while every worker is still outstanding
\* and none has exited
C9_Witness ==
    /\ nprocs >= 1
    /\ lpc = "returned"
    /\ jpc = "idle"
    /\ result.kind = "false"
    /\ sentinels = Workers
    /\ \A i \in Workers : Alive(i)

\* C10: a join call that has designated a failure comes to an end and
\* raises, also when a surviving worker ignores the termination request.
C10_CascadeEnds ==
    (jpc = "is_alive") ~> (jpc = "idle" /\ IsRaised(result))

\* the context has been handed to the caller and join was never called
ContextReturnedFresh ==
    /\ lpc = "returned"
    /\ jpc = "idle"
    /\ result.kind = "none"

\* C11: start_processes with join=False returns the context right after
\* starting all nprocs workers, without a join call (the remaining set holds
\* all nprocs workers); with join=True it returns normally only after a join
\* call returned True, and what join raises reaches the caller.
C11_LaunchReturn ==
    /\ ContextReturnedFresh =>
          /\ ~joinFlag
          /\ spawned = nprocs
          /\ sentinels = Workers
          /\ \A i \in Workers : wst[i] # "none"
          /\ reportCalls = <<>> /\ \A i \in Workers : ~termSent[i]
    /\ ~joinFlag => lpc \notin {"loop", "done", "raised"}
    /\ lpc = "done" => (joinFlag /\ jpc = "idle" /\ result.kind = "true")
    /\ lpc = "raised" =>
          /\ joinFlag /\ jpc = "idle" /\ IsRaised(result)
          /\ raisedLog # <<>>
          /\ raisedLog[Len(raisedLog)].exc = result
    /\ (joinFlag /\ jpc = "idle" /\ IsRaised(result)) => lpc = "raised"

\* C11 witness: a failure record raised by join has left start_processes
C11_Witness ==
    /\ joinFlag
    /\ nprocs >= 2
    /\ lpc = "raised"
    /\ IsRecord(result)

C12_ShrinkStep ==
    /\ sentinels' \subseteq Workers
    /\ lpc \notin {"start", "spawn"} => sentinels' \subseteq sentinels
    /\ lpc \notin {"start", "spawn"} =>
          \A i \in sentinels \ sentinels' : Exited(i)
    /\ (jpc # "idle" /\ jpc' = "idle" /\ result'.kind \in {"true", "false"}) =>
          (result'.kind = "true" <=> sentinels' = {})

\* C12: the remaining set only shrinks once the context exists, stays within
\* the launched indices, loses only workers that have terminated, and a join
\* call that saw no non-zero exit returns True exactly when the set is empty
\* after the call.
C12_RemainingSetShrinks == [][C12_ShrinkStep]_vars

\* C12 witness: join returned False after removing some but not all workers
C12_Witness ==
    /\ jpc = "idle"
    /\ result.kind = "false"
    /\ sentinels # {}
    /\ sentinels # Workers
    /\ \A i \in Workers \ sentinels : exitcode[i] = 0

\* positions of the ready list whose worker exited non-zero
NonZeroReady == {j \in 1..Len(ready) : exitcode[ready[j]] # 0}

\* the first of them
FirstNonZero == CHOOSE j \in NonZeroReady : \A m \in NonZeroReady : j <= m

C13_ScanStep ==
    (jpc = "scan" /\ jpc' # "scan") =>
        IF NonZeroReady = {}
        THEN /\ error_index' = None
             /\ sentinels' = sentinels \ {ready[j] : j \in 1..Len(ready)}
        ELSE /\ error_index' = ready[FirstNonZero]
             /\ sentinels' = sentinels \ {ready[j] : j \in 1..FirstNonZero}
             /\ \A j \in (FirstNonZero + 1)..Len(ready) : ready[j] \in sentinels'

\* C13: within one join call the ready workers are scanned in the order of
\* the ready list up to the first with a non-zero exit status, which becomes
\* the designated failure; it and the zero-exit workers before it leave the
\* remaining set, the ready workers after it stay, whatever their status.
C13_ScanStopsAtFirstFailure == [][C13_ScanStep]_vars

\* C13 witness: two workers were ready, both exited non-zero; the first of
\* the list is designated and the second is still in the remaining set
C13_Witness ==
    /\ jpc = "is_alive"
    /\ cidx = 0
    /\ Len(ready) >= 2
    /\ error_index = ready[1]
    /\ exitcode[ready[2]] # 0
    /\ ready[2] \in sentinels
    /\ ready[1] \notin sentinels

\* C14: every failure record join raised names an index of the group whose
\* worker has terminated with a non-zero exit status, and carries the pid of
\* the worker at that index; a worker that exited 0 is never reported.
C14_RecordNamesFailedWorker ==
    \A j \in 1..Len(raisedLog) :
        LET e == raisedLog[j] IN
        IsRecord(e.exc) =>
            /\ e.exc.error_index \in Workers
            /\ e.exc.error_index = e.index
            /\ Exited(e.index)
            /\ exitcode[e.index] # 0
            /\ e.exc.error_pid = pid[e.index]
            /\ \A i \in Workers : pid[i] = e.exc.error_pid => i = e.index

\* C14 witness: a record for the worker at index 1 while worker 0 exited 0
C14_Witness ==
    /\ nprocs >= 2
    /\ exitcode[0] = 0
    /\ raisedLog # <<>>
    /\ IsRecord(raisedLog[1].exc)
    /\ raisedLog[1].exc.error_index = 1

\* the failure records among the exceptions join raised
RecordsRaised == {j \in 1..Len(raisedLog) : IsRecord(raisedLog[j].exc)}

\* C15: Failed is terminal: over all join calls on one context at most one
\* failure record is raised, and none designates a worker that the cascade
\* of an earlier join call terminated.
C15_AtMostOneRecord ==
    /\ Cardinality(RecordsRaised) <= 1
    /\ \A j \in RecordsRaised : ~termSent[raisedLog[j].index]

\* a step that puts on queue q / a step that takes from queue q
PutOn(q) == Len(error_queues'[q]) > Len(error_queues[q])
GetFrom(q) == Len(error_queues'[q]) < Len(error_queues[q]) \/ reads'[q] # reads[q]

C16_ChannelStep ==
    \A q \in Idx :
        /\ PutOn(q) =>
              /\ error_queues[q] = <<>> /\ reads[q] = 0
              /\ Len(error_queues'[q]) = 1
              /\ \E i \in Idx :
                    /\ wst[i] = "caught" /\ wst'[i] = "posted"
                    /\ wrap_args[i].error_queue = q
                    /\ threw[i]
                    /\ FnOf(i).kind = "raise"
                    /\ sigrecv[i] # SIGINT
        /\ GetFrom(q) =>
              /\ jpc = "report"
              /\ q = QueueOf(error_index)
              /\ q = wrap_args[error_index].error_queue
              /\ reads[q] = 0 /\ reads'[q] = 1
              /\ error_queues'[q] = Tail(error_queues[q])
              /\ result'.kind = "WorkerRaisedException"

\* C16: every failure channel is written at most once, by its own worker
\* and only after its fn raised, and read at most once, by the join call
\* that designated that worker; a worker whose fn returns or is interrupted
\* by KeyboardInterrupt writes nothing.
C16_ChannelDiscipline == [][C16_ChannelStep]_vars

\* C16 witness: the parent has read the trace of a worker that raised, and
\* a sibling hit by SIGINT has exited without writing
C16_Witness ==
    \E i, k \in Workers :
        /\ wst[i] # "none" /\ wst[k] # "none"
        /\ reads[wrap_args[i].error_queue] = 1
        /\ error_queues[wrap_args[i].error_queue] = <<>>
        /\ sigrecv[k] = SIGINT
        /\ Exited(k)
        /\ error_queues[wrap_args[k].error_queue] = <<>>
        /\ reads[wrap_args[k].error_queue] = 0

\* C17: a worker whose fn raised an exception is, in every interleaving,
\* reported as WorkerRaisedException, never as exited or signaled.
C17_RaisingWorkerReportedAsRaised ==
    \A j \in 1..Len(raisedLog) :
        threw[raisedLog[j].index] =>
            raisedLog[j].exc.kind = "WorkerRaisedException"

\* the message of a record before any report text: the header and the trace
\* of the queue for a raised exception, nothing for the other two
OwnMsg(e) ==
    IF e.exc.kind = "WorkerRaisedException"
    THEN ProcessMsg(e.index, format_exc(fn[e.index].msg))
    ELSE <<>>

\* msg ends with the text t
EndsWith(msg, t) ==
    /\ Len(msg) >= Len(t)
    /\ SubSeq(msg, Len(msg) - Len(t) + 1, Len(msg)) = t

\* a step in which join raises
JoinRaises == Len(raisedLog') = Len(raisedLog) + 1

C18_FetchStep ==
    IF JoinRaises
    THEN /\ jpc = "report"
         /\ \A i \in Workers : Exited(i)
         /\ Len(reportCalls') = Len(reportCalls) + 1
         /\ SubSeq(reportCalls', 1, Len(reportCalls)) = reportCalls
         /\ LET e == raisedLog'[Len(raisedLog')]
                call == reportCalls'[Len(reportCalls')]
            IN /\ e.index = error_index
               /\ e.exc = result'
               /\ call.pid = pid[error_index]
               /\ IsRecord(e.exc) =>
                     IF call.text = <<>>
                     THEN e.exc.msg = OwnMsg(e)
                     ELSE /\ SubSeq(e.exc.msg, 1, Len(OwnMsg(e))) = OwnMsg(e)
                          /\ EndsWith(e.exc.msg, call.text)
                          /\ Len(e.exc.msg) > Len(OwnMsg(e))
    ELSE reportCalls' = reportCalls

\* C18: a join that raises fetches the report text exactly once, for the pid
\* of the designated worker, once every worker has been joined by the
\* cascade, and no other step fetches it; whatever the kind of the record, a
\* text that is present ends the record's message, after the record's own
\* message, and with no text the message is the record's own message.
C18_ReportFetchedOnceAndAppended == [][C18_FetchStep]_vars

\* C18 witness: two failed joins on one context, a raised exception whose
\* message carries the report text and another record built with no text
C18_Witness ==
    /\ Len(raisedLog) = 2
    /\ \E j, k \in 1..2 :
          /\ raisedLog[j].exc.kind = "WorkerRaisedException"
          /\ reportCalls[j].text # <<>>
          /\ IsRecord(raisedLog[k].exc)
          /\ reportCalls[k].text = <<>>

\* C19: a join call without timeout on a context with workers outstanding
\* gets past the wait only with at least one outstanding worker terminated,
\* each False it returns to the loop of start_processes has taken at least
\* one more worker out of sentinels, and that loop makes at most nprocs
\* calls of join.
C19_LoopMakesAtMostNprocsCalls ==
    /\ (jpc = "scan" /\ timeout = "none") =>
          /\ ready # <<>>
          /\ \A k \in 1..Len(ready) : Exited(ready[k]) /\ ready[k] \in sentinels
    /\ (lpc = "loop" /\ result.kind = "false") =>
          Cardinality(sentinels) <= nprocs - ncalls
    /\ joinFlag => ncalls <= nprocs

\* the context has been constructed and join has not been called on it
ContextJustBuilt ==
    /\ lpc \in {"loop", "returned"}
    /\ jpc = "idle"
    /\ result.kind = "none"

C20_LaunchStep ==
    /\ configured' # configured =>
          /\ configured = 0 /\ configured' = 1
          /\ \A i \in Idx : wst[i] = "none"
    /\ \A i \in Idx :
          (wst[i] = "none" /\ wst'[i] # "none") =>
             /\ configured = 1
             /\ i = spawned /\ i < nprocs
             /\ wrap_args'[i].i = i
             /\ error_queues'[wrap_args'[i].error_queue] = <<>>
             /\ \A k \in Idx :
                   wst[k] # "none" =>
                      wrap_args[k].error_queue # wrap_args'[i].error_queue
    /\ (lpc = "spawn" /\ lpc' # "spawn") =>
          /\ configured = 1
          /\ spawned = nprocs
          /\ Len(queue_list) = nprocs
          /\ sentinels' = Workers
          /\ \A i \in Idx : wst[i] # "none" <=> i \in Workers
          /\ \A i \in Workers :
                /\ wrap_args[i].i = i
                /\ pid[i] = PidOf(wrap_args[i].i)
                /\ QueueOf(i) = wrap_args[i].error_queue
    /\ lpc \notin {"start", "spawn"} =>
          UNCHANGED <<spawned, configured, pid, wrap_args, queue_list>>

\* C20: configure is called exactly once, before any worker is started;
\* exactly the workers 0..nprocs-1 are started, in that order, each with its
\* index and a new empty queue that no worker started before it holds; in
\* the context built, the process, the queue and the sentinel entry at
\* position i are those of the worker started with i.
C20_LaunchStructure == [][C20_LaunchStep]_vars

\* C20 witness: a context of at least two workers has just been built
C20_Witness ==
    /\ ContextJustBuilt
    /\ nprocs >= 2
    /\ \A i \in Workers : wst[i] # "none"

====
